---- MODULE Spec2Model ----
(***************************************************************************)
(* A model of the session provider of src/contexts/AuthContext.tsx.        *)
(*                                                                         *)
(* The provider holds three pieces of React state (user, userProfile,      *)
(* loading).  Every handler of the provider runs to its next await on the  *)
(* single UI thread, so each action below is one such run: the synchronous *)
(* part of an operation up to the backend call it suspends on, or the      *)
(* continuation that runs when that backend call completes.  Backend calls *)
(* in flight are kept in bags; they complete in any order.                 *)
(*                                                                         *)
(* The timestamps of the mock records (new Date().toISOString()) are not   *)
(* modelled: nothing in the provider reads them.                           *)
(***************************************************************************)
EXTENDS Naturals, Sequences, FiniteSets, Bags, TLC

VARIABLES
    user,         \* useState<SupabaseUser | null>
    userProfile,  \* useState<User | null>
    loading,      \* useState(true)
    init,         \* where the getSession() chain of the mount effect stands
    subscribed,   \* the onAuthStateChange subscription is live
    fetches,      \* bag: profile queries in flight (fetchUserProfile suspended)
    signIns,      \* bag: signInWithPassword calls in flight (signIn suspended)
    signOuts,     \* number of backend signOut calls in flight (signOut suspended)
    writes,       \* bag: users-table updates in flight (updateProfile suspended)
    last          \* the handler run that produced this state, and what its caller got

vars == <<user, userProfile, loading, init, subscribed,
          fetches, signIns, signOuts, writes, last>>

----------------------------------------------------------------------------
(* Bounds of the model *)

\* backend calls that may be in flight at the same time
MaxInFlight == 2

----------------------------------------------------------------------------
(* Values *)

\* null of the two nullable pieces of state
Null == [null |-> TRUE]

\* no error reached the caller
NoError == <<>>

DemoEmail == "demo@chamber.law"

DemoPassword == "demo123456"

DemoUserId == "demo-user-id"

\* the credential pairs a caller may pass to signIn
Emails == {DemoEmail, "Demo@chamber.law", "ann@firm.law"}

Passwords == {DemoPassword, "demo12345"}

\* the identities the backend may report in a session
SessionUsers == {[id |-> "u1", email |-> "ann@firm.law"],
                 [id |-> "u2", email |-> "bob@firm.law"]}

Roles == {"senior_lawyer", "paralegal"}

\* the rows of the users table that .eq('id', userId).single() can return
RowsFor(userId) ==
    { [id |-> userId, tenant_id |-> "tenant-1", email |-> "member@firm.law",
       role |-> r, name |-> "Member", language |-> "en"] : r \in Roles }

\* the errors the backend may return or throw (message texts, as token lists)
BackendErrors == {<<"Invalid login credentials">>, <<"Request rate limit reached">>}

\* the partial updates a caller may pass to updateProfile
UpdateInputs == {[language |-> "ar"], [role |-> "paralegal", name |-> "Renamed"]}

\* a handler run: its name, the error its caller got, and its input (the
\* arguments of a call, or the error the backend gave a continuation)
Step(op, err, arg) == [op |-> op, err |-> err, arg |-> arg]

\* the backend calls in flight (the code sets no limit; MaxInFlight bounds them)
InFlight == BagCardinality(fetches) + BagCardinality(signIns)
            + signOuts + BagCardinality(writes)

CanIssue == InFlight < MaxInFlight

----------------------------------------------------------------------------
(* Initial state: the three useState initialisers, the mount effect has    *)
(* called getSession() and subscribed.                                      *)

Init ==
    /\ user = Null
    /\ userProfile = Null
    /\ loading = TRUE
    /\ init = "pending"
    /\ subscribed = TRUE
    /\ fetches = EmptyBag
    /\ signIns = EmptyBag
    /\ signOuts = 0
    /\ writes = EmptyBag
    /\ last = Step("mount", NoError, <<>>)

----------------------------------------------------------------------------
(* fetchUserProfile *)

\* fetchUserProfile(userId) up to its await: the query is issued
StartFetch(userId, origin) ==
    fetches' = fetches (+) SetToBag({[userId |-> userId, origin |-> origin]})

\* FetchError with the catch block rethrowing
FetchErrorRethrow(e) == e

\* what the promise of fetchUserProfile delivers when the query failed with e
FetchError(e) == NoError

\* FetchOk dropping a row fetched for an identity that is no longer the current one
FetchOkGuarded(f, row) ==
    /\ fetches' = fetches (-) SetToBag({f})
    /\ userProfile' = IF user # Null /\ user.id = f.userId THEN row ELSE userProfile
    /\ loading' = FALSE
    /\ init' = IF f.origin = "getSession" THEN "done" ELSE init
    /\ last' = Step("fetchOk", NoError, <<>>)
    /\ UNCHANGED <<user, subscribed, signIns, signOuts, writes>>

\* the query resolved with a row: setUserProfile(data), finally setLoading(false)
FetchOk(f, row) ==
    /\ fetches' = fetches (-) SetToBag({f})
    /\ userProfile' = row
    /\ loading' = FALSE
    /\ init' = IF f.origin = "getSession" THEN "done" ELSE init
    /\ last' = Step("fetchOk", NoError, <<>>)
    /\ UNCHANGED <<user, subscribed, signIns, signOuts, writes>>

\* FetchFail without the finally block: loading is cleared on success only
FetchFailNoFinally(f, e) ==
    /\ fetches' = fetches (-) SetToBag({f})
    /\ init' = IF f.origin = "getSession" THEN "done" ELSE init
    /\ last' = Step("fetchFail", NoError, e)
    /\ UNCHANGED <<user, userProfile, loading, subscribed, signIns, signOuts, writes>>

\* the query returned an error (or threw): caught and logged, finally setLoading(false)
FetchFail(f, e) ==
    /\ fetches' = fetches (-) SetToBag({f})
    /\ loading' = FALSE
    /\ init' = IF f.origin = "getSession" THEN "done" ELSE init
    /\ last' = Step("fetchFail", FetchError(e), e)
    /\ UNCHANGED <<user, userProfile, subscribed, signIns, signOuts, writes>>

----------------------------------------------------------------------------
(* The mount effect *)

\* getSession().then(...) with a session that holds a user
GetSessionUser(s) ==
    /\ init = "pending"
    /\ CanIssue
    /\ user' = s
    /\ StartFetch(s.id, "getSession")
    /\ init' = "fetching"
    /\ last' = Step("getSessionUser", NoError, <<>>)
    /\ UNCHANGED <<userProfile, loading, subscribed, signIns, signOuts, writes>>

\* getSession().then(...) with no session
GetSessionAbsent ==
    /\ init = "pending"
    /\ user' = Null
    /\ loading' = FALSE
    /\ init' = "absent"
    /\ last' = Step("getSessionAbsent", NoError, <<>>)
    /\ UNCHANGED <<userProfile, subscribed, fetches, signIns, signOuts, writes>>

\* getSession() rejects: the .then callback never runs
GetSessionReject(e) ==
    /\ init = "pending"
    /\ init' = "rejected"
    /\ last' = Step("getSessionReject", e, <<>>)
    /\ UNCHANGED <<user, userProfile, loading, subscribed,
                   fetches, signIns, signOuts, writes>>

\* AuthChangeUser showing the loading state again while the profile is re-fetched
AuthChangeUserSetsLoading(s) ==
    /\ subscribed
    /\ CanIssue
    /\ user' = s
    /\ loading' = TRUE
    /\ StartFetch(s.id, "onAuthStateChange")
    /\ last' = Step("authChangeUser", NoError, <<>>)
    /\ UNCHANGED <<userProfile, init, subscribed, signIns, signOuts, writes>>

\* the onAuthStateChange callback with a session that holds a user
AuthChangeUser(s) ==
    /\ subscribed
    /\ CanIssue
    /\ user' = s
    /\ StartFetch(s.id, "onAuthStateChange")
    /\ last' = Step("authChangeUser", NoError, <<>>)
    /\ UNCHANGED <<userProfile, loading, init, subscribed, signIns, signOuts, writes>>

\* the onAuthStateChange callback with no session
AuthChangeAbsent ==
    /\ subscribed
    /\ user' = Null
    /\ userProfile' = Null
    /\ loading' = FALSE
    /\ last' = Step("authChangeAbsent", NoError, <<>>)
    /\ UNCHANGED <<init, subscribed, fetches, signIns, signOuts, writes>>

\* Teardown with a cleanup that does not unsubscribe
TeardownLeak ==
    /\ subscribed
    /\ last' = Step("teardown", NoError, <<>>)
    /\ UNCHANGED <<user, userProfile, loading, init, subscribed,
                   fetches, signIns, signOuts, writes>>

\* the effect's cleanup
Teardown ==
    /\ subscribed
    /\ subscribed' = FALSE
    /\ last' = Step("teardown", NoError, <<>>)
    /\ UNCHANGED <<user, userProfile, loading, init,
                   fetches, signIns, signOuts, writes>>

----------------------------------------------------------------------------
(* signIn *)

\* IsDemo comparing the email without regard to case
IsDemoAnyCase(email, password) ==
    email \in {DemoEmail, "Demo@chamber.law"} /\ password = DemoPassword

\* IsDemo with a mistyped password literal
IsDemoTypo(email, password) == email = DemoEmail /\ password = "demo12345"

\* the demo test of signIn
IsDemo(email, password) == email = DemoEmail /\ password = DemoPassword

mockUser == [id |-> DemoUserId, email |-> DemoEmail]

mockProfile ==
    [id |-> DemoUserId, tenant_id |-> "demo-tenant", email |-> DemoEmail,
     role |-> "senior_lawyer", name |-> "Demo User", language |-> "en"]

\* SignInError rethrowing what it caught
SignInErrorRaw(e) == e

\* the error signIn throws from its catch block, whatever error e it caught
SignInError(e) ==
    <<"Invalid credentials. Please try ", DemoEmail, " / ", DemoPassword>>

\* signIn(email, password) up to its return (demo) or its await (backend)
SignIn(email, password) ==
    /\ IF IsDemo(email, password)
         THEN /\ user' = mockUser
              /\ userProfile' = mockProfile
              /\ UNCHANGED signIns
         ELSE /\ CanIssue
              /\ signIns' = signIns (+) SetToBag({[email |-> email, password |-> password]})
              /\ UNCHANGED <<user, userProfile>>
    /\ last' = Step("signIn", NoError, [email |-> email, password |-> password])
    /\ UNCHANGED <<loading, init, subscribed, fetches, signOuts, writes>>

\* signInWithPassword resolved without error: signIn returns
SignInOk(c) ==
    /\ signIns' = signIns (-) SetToBag({c})
    /\ last' = Step("signInOk", NoError, <<>>)
    /\ UNCHANGED <<user, userProfile, loading, init, subscribed,
                   fetches, signOuts, writes>>

\* signInWithPassword returned an error or threw: the catch block rethrows
SignInFail(c, e) ==
    /\ signIns' = signIns (-) SetToBag({c})
    /\ last' = Step("signInFail", SignInError(e), e)
    /\ UNCHANGED <<user, userProfile, loading, init, subscribed,
                   fetches, signOuts, writes>>

----------------------------------------------------------------------------
(* signOut *)

\* SignOut calling the backend first and clearing local state after the await
SignOutRemoteFirst ==
    /\ CanIssue
    /\ signOuts' = signOuts + 1
    /\ last' = Step("signOut", NoError, <<>>)
    /\ UNCHANGED <<user, userProfile, loading, init, subscribed, fetches, signIns, writes>>

\* signOut() up to its await
SignOut ==
    /\ CanIssue
    /\ user' = Null
    /\ userProfile' = Null
    /\ signOuts' = signOuts + 1
    /\ last' = Step("signOut", NoError, <<>>)
    /\ UNCHANGED <<loading, init, subscribed, fetches, signIns, writes>>

\* the outcomes of the backend signOut call
SignOutOutcomes == {"ok", "error", "thrown"}

\* the backend call settled: a returned error is not read, a thrown one is caught
SignOutDone(outcome) ==
    /\ signOuts > 0
    /\ signOuts' = signOuts - 1
    /\ last' = Step("signOutDone", NoError, outcome)
    /\ UNCHANGED <<user, userProfile, loading, init, subscribed,
                   fetches, signIns, writes>>

----------------------------------------------------------------------------
(* updateProfile *)

NoUserError == <<"No user logged in">>

\* Merge with the spread operands swapped: { ...updates, ...prev }
MergePrevWins(prev, updates) ==
    [k \in (DOMAIN prev) \cup (DOMAIN updates) |->
        IF k \in DOMAIN prev THEN prev[k] ELSE updates[k]]

\* { ...prev, ...updates }
Merge(prev, updates) ==
    [k \in (DOMAIN prev) \cup (DOMAIN updates) |->
        IF k \in DOMAIN updates THEN updates[k] ELSE prev[k]]

\* UpdateError wrapping the backend error in a message of its own
UpdateErrorWrapped(e) == <<"Failed to update profile">>

\* what updateProfile throws when the remote write failed with e
UpdateError(e) == e

\* UpdateProfile without the guard, reading the id as user?.id
UpdateProfileUnguarded(updates) ==
    /\ CanIssue
    /\ writes' = writes (+) SetToBag({[userId |-> IF user = Null THEN "undefined" ELSE user.id,
                                       updates |-> updates]})
    /\ last' = Step("updateProfile", NoError, updates)
    /\ UNCHANGED <<user, userProfile, loading, init, subscribed,
                   fetches, signIns, signOuts>>

\* updateProfile(updates) up to its throw (no user) or its await
UpdateProfile(updates) ==
    /\ IF user = Null
         THEN /\ last' = Step("updateProfile", NoUserError, updates)
              /\ UNCHANGED writes
         ELSE /\ CanIssue
              /\ writes' = writes (+) SetToBag({[userId |-> user.id, updates |-> updates]})
              /\ last' = Step("updateProfile", NoError, updates)
    /\ UNCHANGED <<user, userProfile, loading, init, subscribed,
                   fetches, signIns, signOuts>>

\* the remote write succeeded: setUserProfile(prev => prev ? {...prev, ...updates} : null)
UpdateOk(w) ==
    /\ writes' = writes (-) SetToBag({w})
    /\ userProfile' = IF userProfile # Null THEN Merge(userProfile, w.updates) ELSE Null
    /\ last' = Step("updateOk", NoError, w.updates)
    /\ UNCHANGED <<user, loading, init, subscribed, fetches, signIns, signOuts>>

\* the remote write returned an error (or rejected): updateProfile throws it
UpdateFail(w, e) ==
    /\ writes' = writes (-) SetToBag({w})
    /\ last' = Step("updateFail", UpdateError(e), e)
    /\ UNCHANGED <<user, userProfile, loading, init, subscribed,
                   fetches, signIns, signOuts>>

----------------------------------------------------------------------------
(* The context surface *)

\* the default value of the context: createContext(undefined)
Undefined == [undefined |-> TRUE]

\* the value the provider hands to its subtree
value ==
    [user |-> user, userProfile |-> userProfile, loading |-> loading,
     signIn |-> "signIn", signOut |-> "signOut", updateProfile |-> "updateProfile"]

\* useContext(AuthContext), for a caller inside or outside the provider's subtree
useContext(enclosed) == IF enclosed THEN value ELSE Undefined

\* useAuth returning whatever the context holds
useAuthUnchecked(context) == [err |-> NoError, value |-> context]

\* useAuth, given what useContext returned: the error thrown and the value returned
useAuth(context) ==
    IF context = Undefined
      THEN [err |-> <<"useAuth must be used within an AuthProvider">>,
            value |-> Undefined]
      ELSE [err |-> NoError, value |-> context]

\* a component calls useAuth()
UseAuth(enclosed) ==
    /\ last' = Step("useAuth", useAuth(useContext(enclosed)).err,
                    [enclosed |-> enclosed,
                     value |-> useAuth(useContext(enclosed)).value])
    /\ UNCHANGED <<user, userProfile, loading, init, subscribed,
                   fetches, signIns, signOuts, writes>>

----------------------------------------------------------------------------
Next ==
    \/ \E s \in SessionUsers : GetSessionUser(s)
    \/ GetSessionAbsent
    \/ \E e \in BackendErrors : GetSessionReject(e)
    \/ \E s \in SessionUsers : AuthChangeUser(s)
    \/ AuthChangeAbsent
    \/ Teardown
    \/ \E f \in BagToSet(fetches) : \E row \in RowsFor(f.userId) : FetchOk(f, row)
    \/ \E f \in BagToSet(fetches) : \E e \in BackendErrors : FetchFail(f, e)
    \/ \E email \in Emails : \E password \in Passwords : SignIn(email, password)
    \/ \E c \in BagToSet(signIns) : SignInOk(c)
    \/ \E c \in BagToSet(signIns) : \E e \in BackendErrors : SignInFail(c, e)
    \/ SignOut
    \/ \E outcome \in SignOutOutcomes : SignOutDone(outcome)
    \/ \E updates \in UpdateInputs : UpdateProfile(updates)
    \/ \E w \in BagToSet(writes) : UpdateOk(w)
    \/ \E w \in BagToSet(writes) : \E e \in BackendErrors : UpdateFail(w, e)
    \/ \E enclosed \in BOOLEAN : UseAuth(enclosed)

Spec == Init /\ [][Next]_vars

\* the backend calls the provider issued, completing with any outcome
GetSessionDone ==
    \/ \E s \in SessionUsers : GetSessionUser(s)
    \/ GetSessionAbsent
    \/ \E e \in BackendErrors : GetSessionReject(e)

FetchDone ==
    \E f \in BagToSet(fetches) :
        \/ \E row \in RowsFor(f.userId) : FetchOk(f, row)
        \/ \E e \in BackendErrors : FetchFail(f, e)

SignInDone ==
    \E c \in BagToSet(signIns) : SignInOk(c) \/ \E e \in BackendErrors : SignInFail(c, e)

SignOutSettled == \E outcome \in SignOutOutcomes : SignOutDone(outcome)

UpdateDone ==
    \E w \in BagToSet(writes) : UpdateOk(w) \/ \E e \in BackendErrors : UpdateFail(w, e)

\* every backend call the provider issued eventually completes
FairSpec ==
    /\ Spec
    /\ WF_vars(GetSessionDone)
    /\ WF_vars(FetchDone)
    /\ WF_vars(SignInDone)
    /\ WF_vars(SignOutSettled)
    /\ WF_vars(UpdateDone)

----------------------------------------------------------------------------
(* Properties *)

\* the text s occurs in the message msg
Contains(msg, s) == \E i \in DOMAIN msg : msg[i] = s

DemoPair == [email |-> DemoEmail, password |-> DemoPassword]

\* C1: whenever identity and profile are both non-empty, profile.id equals
\* identity.id.
C1_ProfileIdIsIdentityId ==
    (user # Null /\ userProfile # Null) => userProfile.id = user.id

\* C2: when signOut resolves (its backend call settled, whatever the outcome),
\* identity and profile are both empty.
C2_SignOutResolvesEmpty ==
    last.op = "signOutDone" => (user = Null /\ userProfile = Null)

\* C3: once the profile fetch started by the initial session retrieval has
\* finished, with success or with failure, loading is false.
C3_InitDoneNotLoading ==
    init = "done" => loading = FALSE

C3_Witness ==
    /\ init = "done"
    /\ last.op = "fetchFail"
    /\ user # Null
    /\ loading = FALSE

\* C4: right after an absent session is resolved, by the initial retrieval or by
\* a notification, identity is empty, profile is empty and loading is false.
C4_AbsentSessionClearsAll ==
    last.op \in {"getSessionAbsent", "authChangeAbsent"}
        => (user = Null /\ userProfile = Null /\ loading = FALSE)

\* C5: signIn with exactly the demo pair sets, in the same step, the identity
\* "demo-user-id" and a profile with that id, role "senior_lawyer" and language
\* "en", and issues no backend call.
C5_DemoSignIn ==
    [][ (last'.op = "signIn" /\ last'.arg = DemoPair)
          => /\ user' # Null
             /\ user'.id = "demo-user-id"
             /\ userProfile' # Null
             /\ userProfile'.id = "demo-user-id"
             /\ userProfile'.role = "senior_lawyer"
             /\ userProfile'.language = "en"
             /\ UNCHANGED <<fetches, signIns, signOuts, writes>> ]_vars

C5_Witness ==
    /\ last.op = "signIn"
    /\ last.arg = DemoPair
    /\ user # Null
    /\ user.id = "demo-user-id"
    /\ InFlight > 0

C7_MergeLaw ==
    [][ ( /\ last'.op = "updateOk"
          /\ userProfile # Null
          /\ DOMAIN last'.arg \subseteq DOMAIN userProfile
          /\ DOMAIN last'.arg # DOMAIN userProfile )
          => /\ userProfile' # Null
             /\ DOMAIN userProfile' = DOMAIN userProfile
             /\ \A k \in DOMAIN last'.arg : userProfile'[k] = last'.arg[k]
             /\ \A k \in DOMAIN userProfile \ DOMAIN last'.arg :
                    userProfile'[k] = userProfile[k]
             /\ UNCHANGED <<user, loading, fetches>> ]_vars

C7_Witness ==
    /\ last.op = "updateOk"
    /\ last.arg = [language |-> "ar"]
    /\ userProfile # Null
    /\ userProfile.language = "ar"
    /\ userProfile.role = "paralegal"

\* C8: updateProfile with no identity fails with "No user logged in", issues
\* no remote write and leaves identity, profile and loading as they were.
C8_UpdateWithoutUser ==
    [][ (last'.op = "updateProfile" /\ user = Null)
          => /\ last'.err = <<"No user logged in">>
             /\ UNCHANGED <<user, userProfile, loading, writes>> ]_vars

C8_Witness ==
    /\ last.op = "updateProfile"
    /\ last.err = <<"No user logged in">>
    /\ user = Null

\* C9: when the remote write of updateProfile fails, the caller gets the
\* backend's error as it is and identity, profile and loading are untouched.
C9_UpdateFailurePropagates ==
    [][ last'.op = "updateFail"
          => /\ last'.err = last'.arg
             /\ UNCHANGED <<user, userProfile, loading>> ]_vars

C9_Witness ==
    /\ last.op = "updateFail"
    /\ last.err = <<"Request rate limit reached">>
    /\ userProfile # Null

\* C10: a failed profile fetch leaves profile and identity as they were, hands
\* no error to its caller and sets loading to false.
C10_FetchFailure ==
    [][ last'.op = "fetchFail"
          => /\ userProfile' = userProfile
             /\ user' = user
             /\ last'.err = NoError
             /\ loading' = FALSE ]_vars

C10_Witness ==
    /\ last.op = "fetchFail"
    /\ last.err = NoError
    /\ userProfile # Null
    /\ loading = FALSE

\* C11: teardown releases the auth-change subscription, and once it is released
\* it stays released and no auth-change notification is handled any more.
C11_UnsubscribedOnTeardown ==
    /\ [][ last'.op = "teardown" => (subscribed /\ ~subscribed') ]_vars
    /\ [][ ~subscribed
             => /\ ~subscribed'
                /\ last'.op \notin {"authChangeUser", "authChangeAbsent"} ]_vars

C11_Witness ==
    /\ ~subscribed
    /\ last.op = "fetchOk"
    /\ user # Null

\* C12: signOut clears identity and profile in the step that issues the backend
\* sign-out call, issues that call whatever the state, and resolves without an
\* error for every outcome of the call.
C12_SignOutNeverFails ==
    /\ [][ last'.op = "signOut"
             => /\ user' = Null
                /\ userProfile' = Null
                /\ signOuts' = signOuts + 1
                /\ last'.err = NoError ]_vars
    /\ [][ last'.op = "signOutDone"
             => /\ last'.err = NoError
                /\ signOuts' = signOuts - 1 ]_vars

C12_Witness ==
    /\ last.op = "signOutDone"
    /\ last.arg = "thrown"
    /\ last.err = NoError

\* C13: useAuth outside a provider fails with the "must be used within"
\* error and returns no handle; inside a provider it returns the current
\* identity, profile and loading flag and the three operations, without error.
C13_UseAuthNeedsProvider ==
    last.op = "useAuth"
      => IF last.arg.enclosed
           THEN /\ last.err = NoError
                /\ last.arg.value.user = user
                /\ last.arg.value.userProfile = userProfile
                /\ last.arg.value.loading = loading
                /\ last.arg.value.signIn = "signIn"
                /\ last.arg.value.signOut = "signOut"
                /\ last.arg.value.updateProfile = "updateProfile"
           ELSE /\ last.err = <<"useAuth must be used within an AuthProvider">>
                /\ last.arg.value = [undefined |-> TRUE]

C13_Witness ==
    /\ last.op = "useAuth"
    /\ ~last.arg.enclosed
    /\ last.err = <<"useAuth must be used within an AuthProvider">>
    /\ user # Null

\* C14: loading is true initially and, when every backend call the provider
\* issues eventually completes, loading eventually becomes false.
C14_LoadingEventuallyFalse ==
    /\ loading = TRUE
    /\ <>(loading = FALSE)

\* C15: signIn with any pair other than exactly the demo pair issues exactly one
\* backend sign-in call, carrying that pair, and sets no identity or profile;
\* the successful completion of that call sets none either.
C15_DemoBypassExactMatch ==
    /\ [][ (last'.op = "signIn" /\ last'.arg # DemoPair)
             => /\ signIns' = signIns (+) SetToBag({last'.arg})
                /\ BagCardinality(signIns') = BagCardinality(signIns) + 1
                /\ UNCHANGED <<user, userProfile, loading, fetches, signOuts, writes>> ]_vars
    /\ [][ last'.op = "signInOk"
             => /\ BagCardinality(signIns') = BagCardinality(signIns) - 1
                /\ UNCHANGED <<user, userProfile, loading, fetches, signOuts, writes>> ]_vars

C15_Witness ==
    /\ last.op = "signIn"
    /\ last.arg = [email |-> "Demo@chamber.law", password |-> "demo123456"]
    /\ BagIn(last.arg, signIns)
    /\ user = Null

\* C16: the initial session resolution, the notification handler and the
\* profile-fetch completions write without coordination: each handler writes the
\* identity of its own session and each successful fetch caches its own row and
\* clears loading, whatever the current identity is; so a state is reached in
\* which the last fetch to complete cached a row that is not the current
\* identity's.
C16_LastWriterWins ==
    /\ [][ last'.op = "fetchOk"
             => /\ \E f \in BagToSet(fetches) :
                      /\ fetches' = fetches (-) SetToBag({f})
                      /\ userProfile' # Null
                      /\ userProfile'.id = f.userId
                /\ loading' = FALSE ]_vars
    /\ [][ last'.op \in {"getSessionUser", "authChangeUser"}
             => /\ user' \in SessionUsers
                /\ \E f \in BagToSet(fetches') :
                      /\ fetches' = fetches (+) SetToBag({f})
                      /\ f.userId = user'.id ]_vars
    /\ [][ last'.op \in {"getSessionAbsent", "authChangeAbsent"}
             => (user' = Null /\ loading' = FALSE) ]_vars

C16_Witness ==
    /\ last.op = "fetchOk"
    /\ init = "done"
    /\ fetches = EmptyBag
    /\ user \in SessionUsers
    /\ userProfile # Null
    /\ userProfile.id # user.id

\* C17: while identity and profile are the synthetic demo ones, no backend event
\* (the initial session resolving, an auth-change notification, a profile-fetch
\* completion) replaces or clears either of them.
C17_DemoSurvivesBackendEvents ==
    [][ ( /\ user # Null
          /\ user.id = "demo-user-id"
          /\ userProfile # Null
          /\ userProfile.id = "demo-user-id"
          /\ last'.op \in {"getSessionUser", "getSessionAbsent", "authChangeUser",
                           "authChangeAbsent", "fetchOk", "fetchFail"} )
          => (user' = user /\ userProfile' = userProfile) ]_vars

\* C18: loading never goes from false back to true, and only an absent-session
\* resolution or a profile-fetch completion changes it.
C18_LoadingMonotone ==
    [][ /\ (loading = FALSE => loading' = FALSE)
        /\ (loading' # loading
              => last'.op \in {"getSessionAbsent", "authChangeAbsent",
                               "fetchOk", "fetchFail"}) ]_vars

C18_Witness ==
    /\ loading = FALSE
    /\ last.op = "authChangeUser"
    /\ init = "done"
    /\ fetches # EmptyBag

\* C19: when the remote write of updateProfile(U) succeeds, U is merged only
\* into the cached profile of the identity whose row was written: a cached
\* profile with another id is left as it was, and an empty one stays empty.
C19_MergeOnlyOwnProfile ==
    [][ last'.op = "updateOk"
          => \A w \in BagToSet(writes) :
                (writes' = writes (-) SetToBag({w}))
                  => \/ userProfile' = userProfile
                     \/ (userProfile # Null /\ userProfile.id = w.userId) ]_vars

====
